---- MODULE Spec2Model ----
(***************************************************************************)
(* A model of repo_to_json.py: the walk over a directory tree, the three   *)
(* exclusion rules, the text-mode read of every surviving file, the nested *)
(* dictionary repo_structure and its serialisation with json.dump.         *)
(*                                                                         *)
(* File and directory names are sequences of one-character strings, so     *)
(* that str.endswith is computed.  File contents are sequences of bytes    *)
(* (0..255); decoded text is a sequence of code points.  The output file   *)
(* is the sequence of the characters written, one string each.  The tree   *)
(* walked holds files and directories only, no symbolic links.             *)
(***************************************************************************)
EXTENDS Integers, Sequences, FiniteSets, TLC

\* ------------------------------------------------------------------------
\* Bounds of the model
\* ------------------------------------------------------------------------

\* The largest number of entries (files and directories) below the root.
MaxEntries == 2

\* The deepest entry below the root (1 = directly in the root).
MaxDepth == 2

\* ------------------------------------------------------------------------
\* Names
\* ------------------------------------------------------------------------

n_git == <<".", "g", "i", "t">>
n_node_modules == <<"n", "o", "d", "e", "_", "m", "o", "d", "u", "l", "e", "s">>
n_dist == <<"d", "i", "s", "t">>
n_build == <<"b", "u", "i", "l", "d">>
n_pycache == <<"_", "_", "p", "y", "c", "a", "c", "h", "e", "_", "_">>
n_DS_Store == <<".", "D", "S", "_", "S", "t", "o", "r", "e">>
n_star_log == <<"*", ".", "l", "o", "g">>
n_star_lock == <<"*", ".", "l", "o", "c", "k">>
x_js == <<".", "j", "s">>
x_js_map == <<".", "j", "s", ".", "m", "a", "p">>
x_d_ts == <<".", "d", ".", "t", "s">>
x_exe == <<".", "e", "x", "e">>
x_pyc == <<".", "p", "y", "c">>

\* repo_to_json.py line 7
excluded_dirs == {n_git, n_node_modules, n_dist, n_build, n_pycache}

\* repo_to_json.py line 8
excluded_files == {n_DS_Store, n_star_log, n_star_lock}

\* repo_to_json.py line 9
excluded_extensions == {x_js, x_js_map, x_d_ts, x_exe, x_pyc}

\* str.endswith
EndsWith(s, suffix) ==
    /\ Len(s) >= Len(suffix)
    /\ SubSeq(s, Len(s) - Len(suffix) + 1, Len(s)) = suffix

\* A slip: the entries *.log and *.lock of excluded_files taken as globs.
IsSkippedFile_Globs(file) ==
    \/ \E ext \in excluded_extensions : EndsWith(file, ext)
    \/ file \in excluded_files
    \/ EndsWith(file, <<".", "l", "o", "g">>)
    \/ EndsWith(file, <<".", "l", "o", "c", "k">>)

\* A slip: the test of excluded_files left out.
IsSkippedFile_ExtensionsOnly(file) ==
    \E ext \in excluded_extensions : EndsWith(file, ext)

\* The condition of the `continue` at lines 25-27.
IsSkippedFile(file) ==
    \/ \E ext \in excluded_extensions : EndsWith(file, ext)
    \/ file \in excluded_files

\* A slip: the directory names held against the wrong set.
IsKeptDir_WrongSet(d) == d \notin excluded_files

\* The filter of line 15: dirs[:] = [d for d in dirs if d not in excluded_dirs]
IsKeptDir(d) == d \notin excluded_dirs

\* A slip: the filtered list bound to a new name (dirs = [...]) instead of
\* assigned in place (dirs[:] = [...]), so that os.walk goes down into
\* every directory.
FilterDirs_NotInPlace(dirs) == dirs

\* The list comprehension of line 15: the names of dirs that are kept, in
\* their order.
RECURSIVE FilterDirs(_)
FilterDirs(dirs) ==
    IF dirs = <<>> THEN <<>>
    ELSE IF IsKeptDir(Head(dirs))
         THEN <<Head(dirs)>> \o FilterDirs(Tail(dirs))
         ELSE FilterDirs(Tail(dirs))

\* ------------------------------------------------------------------------
\* Reading a file: open(file_path, 'r', encoding='utf-8').read()
\* ------------------------------------------------------------------------

IsCont(b) == b \in 128..191

\* The strict UTF-8 decoder: the length of the sequence that starts with the
\* lead byte b0 and the range its second byte must lie in; 0 when b0 cannot
\* start a sequence (a continuation byte, an overlong lead 0xC0/0xC1, or a
\* lead above 0xF4).
Utf8Len(b0) ==
    IF b0 < 128 THEN 1
    ELSE IF b0 \in 194..223 THEN 2
    ELSE IF b0 \in 224..239 THEN 3
    ELSE IF b0 \in 240..244 THEN 4
    ELSE 0

Utf8Second(b0) ==
    IF b0 = 224 THEN 160..191
    ELSE IF b0 = 237 THEN 128..159
    ELSE IF b0 = 240 THEN 144..191
    ELSE IF b0 = 244 THEN 128..143
    ELSE 128..191

Utf8Point(s) ==
    IF Len(s) = 1 THEN s[1]
    ELSE IF Len(s) = 2 THEN (s[1] - 192) * 64 + (s[2] - 128)
    ELSE IF Len(s) = 3 THEN (s[1] - 224) * 4096 + (s[2] - 128) * 64 + (s[3] - 128)
    ELSE (s[1] - 240) * 262144 + (s[2] - 128) * 4096 + (s[3] - 128) * 64 + (s[4] - 128)

\* bytes.decode('utf-8') with errors='strict': ok is FALSE where Python
\* raises UnicodeDecodeError.
RECURSIVE Utf8Decode(_)
Utf8Decode(bytes) ==
    IF bytes = <<>> THEN [ok |-> TRUE, text |-> <<>>]
    ELSE LET n == Utf8Len(Head(bytes))
         IN IF \/ n = 0
               \/ Len(bytes) < n
               \/ (n >= 2 /\ bytes[2] \notin Utf8Second(Head(bytes)))
               \/ \E i \in 3..n : ~IsCont(bytes[i])
            THEN [ok |-> FALSE, text |-> <<>>]
            ELSE LET rest == Utf8Decode(SubSeq(bytes, n + 1, Len(bytes)))
                 IN [ok |-> rest.ok,
                     text |-> <<Utf8Point(SubSeq(bytes, 1, n))>> \o rest.text]

\* The file is opened in text mode without a newline argument, so the
\* TextIOWrapper reads with universal newlines: "\r\n" and a lone "\r"
\* become "\n".
RECURSIVE TranslateNewlines(_)
TranslateNewlines(text) ==
    IF text = <<>> THEN <<>>
    ELSE IF Head(text) = 13
         THEN IF Len(text) >= 2 /\ text[2] = 10
              THEN <<10>> \o TranslateNewlines(SubSeq(text, 3, Len(text)))
              ELSE <<10>> \o TranslateNewlines(Tail(text))
         ELSE <<Head(text)>> \o TranslateNewlines(Tail(text))

\* f.read() of lines 31-32: the decoded text, or the UnicodeDecodeError.
ReadText(bytes) ==
    LET d == Utf8Decode(bytes)
    IN [ok |-> d.ok, text |-> IF d.ok THEN TranslateNewlines(d.text) ELSE <<>>]

\* ------------------------------------------------------------------------
\* repo_structure: a dict that keeps insertion order.  A dict is a sequence
\* of items [k, isdir, s, m]: key k, and the value, either the str s
\* (isdir = FALSE) or the dict m (isdir = TRUE).
\* ------------------------------------------------------------------------

StrItem(k, s) == [k |-> k, isdir |-> FALSE, s |-> s, m |-> <<>>]
DictItem(k, m) == [k |-> k, isdir |-> TRUE, s |-> <<>>, m |-> m]

HasKey(d, k) == \E i \in 1..Len(d) : d[i].k = k
IndexOf(d, k) == CHOOSE i \in 1..Len(d) : d[i].k = k

\* The loop of lines 21-22 from the dict d:
\*   current_level = current_level.setdefault(part, {})
\* for every part: the dict afterwards, with the missing dicts created.
RECURSIVE SetDefaultPath(_, _)
SetDefaultPath(d, parts) ==
    IF parts = <<>> THEN d
    ELSE IF HasKey(d, Head(parts))
         THEN [d EXCEPT ![IndexOf(d, Head(parts))].m =
                            SetDefaultPath(@, Tail(parts))]
         ELSE Append(d, DictItem(Head(parts), SetDefaultPath(<<>>, Tail(parts))))

\* d[k] = s: a new key goes last, an old key keeps its place.
SetItem(d, k, s) ==
    IF HasKey(d, k)
    THEN [d EXCEPT ![IndexOf(d, k)] = StrItem(k, s)]
    ELSE Append(d, StrItem(k, s))

\* current_level[file] = content (line 36), where current_level is the dict
\* reached from repo_structure along parts.
RECURSIVE SetItemAt(_, _, _, _)
SetItemAt(d, parts, k, s) ==
    IF parts = <<>> THEN SetItem(d, k, s)
    ELSE [d EXCEPT ![IndexOf(d, Head(parts))].m = SetItemAt(@, Tail(parts), k, s)]

\* ------------------------------------------------------------------------
\* json.dump(repo_structure, f, indent=2): the characters written, one
\* one-character string each.
\* ------------------------------------------------------------------------

\* chr(c) for the printable ASCII code points 32..126 (the grave accent, 96,
\* is spelled out).
Printable == <<
    " ", "!", "\"", "#", "$", "%", "&", "'", "(", ")", "*", "+", ",", "-", ".", "/",
    "0", "1", "2", "3", "4", "5", "6", "7", "8", "9", ":", ";", "<", "=", ">", "?",
    "@", "A", "B", "C", "D", "E", "F", "G", "H", "I", "J", "K", "L", "M", "N", "O",
    "P", "Q", "R", "S", "T", "U", "V", "W", "X", "Y", "Z", "[", "\\", "]", "^", "_",
    "grave", "a", "b", "c", "d", "e", "f", "g", "h", "i", "j", "k", "l", "m", "n", "o",
    "p", "q", "r", "s", "t", "u", "v", "w", "x", "y", "z", "{", "|", "}", "~" >>

Chr(c) == Printable[c - 31]

HexDigits == <<"0", "1", "2", "3", "4", "5", "6", "7", "8", "9",
               "a", "b", "c", "d", "e", "f">>

\* '\\u{0:04x}'.format(n)
EscapeU(n) ==
    <<"\\", "u",
      HexDigits[((n \div 4096) % 16) + 1], HexDigits[((n \div 256) % 16) + 1],
      HexDigits[((n \div 16) % 16) + 1], HexDigits[(n % 16) + 1]>>

\* json.encoder.py_encode_basestring_ascii (ensure_ascii is left at its
\* default True): the escape of one code point.
EscapeAscii(c) ==
    IF c = 34 THEN <<"\\", "\"">>
    ELSE IF c = 92 THEN <<"\\", "\\">>
    ELSE IF c = 10 THEN <<"\\", "n">>
    ELSE IF c = 13 THEN <<"\\", "r">>
    ELSE IF c = 9 THEN <<"\\", "t">>
    ELSE IF c = 8 THEN <<"\\", "b">>
    ELSE IF c = 12 THEN <<"\\", "f">>
    ELSE IF c \in 32..126 THEN <<Chr(c)>>
    ELSE IF c < 65536 THEN EscapeU(c)
    ELSE EscapeU(55296 + ((c - 65536) \div 1024)) \o EscapeU(56320 + ((c - 65536) % 1024))

RECURSIVE EscapeText(_)
EscapeText(text) ==
    IF text = <<>> THEN <<>>
    ELSE EscapeAscii(Head(text)) \o EscapeText(Tail(text))

\* A str value: the escaped text between double quotes.
EncodeStr(text) == <<"\"">> \o EscapeText(text) \o <<"\"">>

\* A key: the names of the model are printable ASCII, of which only the
\* double quote and the backslash are escaped.
RECURSIVE EscapeName(_)
EscapeName(name) ==
    IF name = <<>> THEN <<>>
    ELSE (IF Head(name) \in {"\"", "\\"} THEN <<"\\", Head(name)>> ELSE <<Head(name)>>)
         \o EscapeName(Tail(name))

EncodeKey(name) == <<"\"">> \o EscapeName(name) \o <<"\"">>

\* ' ' * n
RECURSIVE Spaces(_)
Spaces(n) == IF n = 0 THEN <<>> ELSE <<" ">> \o Spaces(n - 1)

\* newline_indent of json.encoder._make_iterencode with indent = 2
NewlineIndent(level) == <<"\n">> \o Spaces(2 * level)

\* _iterencode_dict: the dict d written at nesting level `level`; the items
\* from index i on (the first item follows the opening brace, the others a
\* comma).
RECURSIVE EncodeItems(_, _, _)
EncodeItems(d, i, level) ==
    IF i > Len(d) THEN <<>>
    ELSE (IF i = 1 THEN <<>> ELSE <<",">>)
         \o NewlineIndent(level + 1)
         \o EncodeKey(d[i].k) \o <<":", " ">>
         \o (IF d[i].isdir
             THEN (IF d[i].m = <<>> THEN <<"{", "}">>
                   ELSE <<"{">> \o EncodeItems(d[i].m, 1, level + 1)
                        \o NewlineIndent(level + 1) \o <<"}">>)
             ELSE EncodeStr(d[i].s))
         \o EncodeItems(d, i + 1, level)

\* json.dump(d, f, indent=2)
JsonDump(d) ==
    IF d = <<>> THEN <<"{", "}">>
    ELSE <<"{">> \o EncodeItems(d, 1, 0) \o NewlineIndent(0) \o <<"}">>

\* ------------------------------------------------------------------------
\* The file system the program runs on.  An entry is a record
\*   [path, isdir, bytes, ok]
\* path: the names from repo_path down to the entry; bytes: the content of
\* a file; ok: the permission the program needs (to list a directory, to
\* open a file for reading).
\* ------------------------------------------------------------------------

n_src == <<"s", "r", "c">>
n_lib_js == <<"l", "i", "b", ".", "j", "s">>
n_a_txt == <<"a", ".", "t", "x", "t">>
n_app_js == <<"a", "p", "p", ".", "j", "s">>
n_app_log == <<"a", "p", "p", ".", "l", "o", "g">>

\* The names directories are drawn from: an ordinary name, an excluded
\* name, and a name that ends with an excluded extension.
DirNames == {n_src, n_git, n_lib_js}

\* The names files are drawn from: an ordinary name, a name with an
\* excluded extension, an excluded name, a name the glob *.log would match,
\* the literal name *.log, and a name that is excluded for directories.
FileNames == {n_a_txt, n_app_js, n_DS_Store, n_app_log, n_star_log, n_build}

b_hi == <<104, 105>>
b_newlines == <<195, 169, 13, 10, 13>>
b_binary == <<255>>

\* The contents files are drawn from: "hi"; "e-acute CR LF CR" (a two-byte
\* sequence and both kinds of carriage return); a byte that is not UTF-8.
Contents == {b_hi, b_newlines, b_binary}

DirEntry(path, ok) == [path |-> path, isdir |-> TRUE, bytes |-> <<>>, ok |-> ok]
FileEntry(path, bytes, ok) == [path |-> path, isdir |-> FALSE, bytes |-> bytes, ok |-> ok]

Parent(path) == SubSeq(path, 1, Len(path) - 1)
Basename(path) == path[Len(path)]

\* The entries directly in the directory at path `dir` of the tree t.
Children(t, dir) == {e \in t : Len(e.path) = Len(dir) + 1 /\ Parent(e.path) = dir}

\* The entries one more entry may be: in the root or in a directory of t, at
\* most MaxDepth deep, under a name its directory does not hold yet.
NewEntries(t) ==
    LET parents == {<<>>} \cup {e.path : e \in {x \in t : x.isdir}}
        free(par, n) == \A c \in Children(t, par) : Basename(c.path) # n
    IN UNION { IF Len(par) >= MaxDepth THEN {}
               ELSE {DirEntry(par \o <<n>>, ok) :
                        n \in {m \in DirNames : free(par, m)}, ok \in BOOLEAN}
                    \cup {FileEntry(par \o <<n>>, b, TRUE) :
                        n \in {m \in FileNames : free(par, m)}, b \in Contents}
                    \cup {FileEntry(par \o <<n>>, b_hi, FALSE) :
                        n \in {m \in FileNames : free(par, m)}}
             : par \in parents }

\* The trees of at most k entries.
RECURSIVE Trees(_)
Trees(k) ==
    IF k = 0 THEN {{}}
    ELSE LET smaller == Trees(k - 1)
         IN smaller \cup UNION {{t \cup {e} : e \in NewEntries(t)} : t \in smaller}

\* The orders in which the names of S may be enumerated.
Orders(S) ==
    {s \in [1..Cardinality(S) -> S] : \A i, j \in 1..Cardinality(S) : s[i] = s[j] => i = j}

\* The output file before the run: absent, or holding older text.
Absent == <<"absent">>
OldText == <<"o", "l", "d">>

\* ------------------------------------------------------------------------
\* The state
\* ------------------------------------------------------------------------

VARIABLES
    root_kind,       \* what repo_path is: "dir", "noperm" (a directory that
                     \* cannot be listed), "file" or "missing"
    fs,              \* the entries below repo_path
    outfile0,        \* the output file before the first run
    pc,              \* "start", "walk" (the loop of line 13), "dump" (line 38),
                     \* "print" (line 48), "exit"
    stack,           \* os.walk: the directories still to be visited, next first
    current,         \* the path of the dict current_level refers to
    files,           \* the names the loop of line 24 has still to take
    repo_structure,  \* the dict of line 11
    outfile,         \* the output file: Absent, or the characters it holds
    stdout,          \* the lines printed
    exit_code,       \* the exit status of the process; -1 while it runs
    opened,          \* the paths open() was called on at line 31
    scanned,         \* the directories os.walk called scandir on
    raised,          \* the path whose open() raised the uncaught error, if any
    yielded,         \* what os.walk has yielded so far: <<root, dirs, files>>
    outputs          \* the earlier run of the program on the same tree, if
                     \* there was one: what it yielded, built and wrote

vars == <<root_kind, fs, outfile0, pc, stack, current, files, repo_structure,
          outfile, stdout, exit_code, opened, scanned, raised, yielded, yielded, outputs>>

env == <<root_kind, fs, outfile0>>

SuccessMessage == "Repository JSON created at output_file"

Init ==
    /\ \/ root_kind = "dir" /\ fs \in Trees(MaxEntries)
       \/ root_kind \in {"noperm", "file", "missing"} /\ fs = {}
    /\ outfile0 \in {Absent, OldText}
    /\ pc = "start"
    /\ stack = <<>>
    /\ current = <<>>
    /\ files = <<>>
    /\ repo_structure = <<>>
    /\ outfile = outfile0
    /\ stdout = <<>>
    /\ exit_code = -1
    /\ opened = {}
    /\ scanned = {}
    /\ raised = <<>>
    /\ yielded = <<>>
    /\ outputs = <<>>

\* Whether scandir(dir) succeeds.
Listable(dir) ==
    IF dir = <<>> THEN root_kind = "dir"
    ELSE \E e \in fs : e.path = dir /\ e.isdir /\ e.ok

DirNamesIn(dir) == {Basename(e.path) : e \in {c \in Children(fs, dir) : c.isdir}}
FileNamesIn(dir) == {Basename(e.path) : e \in {c \in Children(fs, dir) : ~c.isdir}}

FileAt(path) == CHOOSE e \in fs : e.path = path

\* A slip: the output file opened for writing before the walk.
Main_OpensOutputFirst ==
    /\ pc = "start"
    /\ pc' = "walk"
    /\ repo_structure' = <<>>
    /\ stack' = << <<>> >>
    /\ current' = <<>>
    /\ files' = <<>>
    /\ outfile' = <<>>
    /\ UNCHANGED <<env, stdout, exit_code, opened, scanned, raised, yielded, outputs>>

\* Lines 41-47: the arguments are parsed and repo_to_json is called; line 11
\* and the call of os.walk(repo_path).
Main ==
    /\ pc = "start"
    /\ pc' = "walk"
    /\ repo_structure' = <<>>
    /\ stack' = << <<>> >>
    /\ current' = <<>>
    /\ files' = <<>>
    /\ UNCHANGED <<env, outfile, stdout, exit_code, opened, scanned, raised, yielded, outputs>>

\* os.walk, whose onerror is None: scandir of the next directory fails and
\* the directory is passed over without a word; nothing is yielded for it.
WalkScandirError ==
    /\ pc = "walk" /\ files = <<>> /\ stack # <<>>
    /\ ~Listable(Head(stack))
    /\ stack' = Tail(stack)
    /\ scanned' = scanned \cup {Head(stack)}
    /\ UNCHANGED <<env, pc, current, files, repo_structure, outfile, stdout,
                   exit_code, opened, raised, yielded, outputs>>

\* Lines 13-22: os.walk yields the next directory with its entries in the
\* order the file system gives them; dirs is filtered in place, which is
\* what os.walk goes down into afterwards; current_level is found or made.
\* The paths os.walk yields are kept relative to repo_path, which is what
\* os.path.relpath at line 19 makes of them; '.' is the empty path.
WalkYield ==
    /\ pc = "walk" /\ files = <<>> /\ stack # <<>>
    /\ Listable(Head(stack))
    /\ LET root == Head(stack)
       IN \E dirs \in Orders(DirNamesIn(root)), fl \in Orders(FileNamesIn(root)) :
            LET kept == FilterDirs(dirs)
            IN /\ stack' = [i \in 1..Len(kept) |-> root \o <<kept[i]>>] \o Tail(stack)
               /\ repo_structure' = IF root = <<>> THEN repo_structure
                                    ELSE SetDefaultPath(repo_structure, root)
               /\ current' = root
               /\ files' = fl
               /\ scanned' = scanned \cup {root}
               /\ yielded' = Append(yielded, <<root, dirs, fl>>)
    /\ UNCHANGED <<env, pc, outfile, stdout, exit_code, opened, raised, outputs>>

\* Lines 24-27: the next file is excluded by its name.
FileSkip ==
    /\ pc = "walk" /\ files # <<>>
    /\ IsSkippedFile(Head(files))
    /\ files' = Tail(files)
    /\ UNCHANGED <<env, pc, stack, current, repo_structure, outfile, stdout,
                   exit_code, opened, scanned, raised, yielded, outputs>>

\* Line 31: open() raises an OSError (PermissionError).  Only
\* UnicodeDecodeError is caught at line 33, so the error leaves
\* repo_to_json and main: a traceback, exit status 1.
FileOpenError ==
    /\ pc = "walk" /\ files # <<>>
    /\ ~IsSkippedFile(Head(files))
    /\ LET file_path == current \o <<Head(files)>>
       IN /\ ~FileAt(file_path).ok
          /\ opened' = opened \cup {file_path}
          /\ raised' = <<file_path>>
    /\ pc' = "exit"
    /\ exit_code' = 1
    /\ UNCHANGED <<env, stack, current, files, repo_structure, outfile, stdout,
                   scanned, yielded, outputs>>

\* A slip: the UnicodeDecodeError not caught.
FileDecodeError_Uncaught ==
    /\ pc = "walk" /\ files # <<>>
    /\ ~IsSkippedFile(Head(files))
    /\ LET file_path == current \o <<Head(files)>>
       IN /\ FileAt(file_path).ok
          /\ ~ReadText(FileAt(file_path).bytes).ok
          /\ opened' = opened \cup {file_path}
          /\ raised' = <<file_path>>
    /\ pc' = "exit"
    /\ exit_code' = 1
    /\ UNCHANGED <<env, stack, current, files, repo_structure, outfile, stdout,
                   scanned, yielded, outputs>>

\* Lines 31-34: the file is opened, read() raises UnicodeDecodeError, and
\* the loop goes on to the next file.
FileDecodeError ==
    /\ pc = "walk" /\ files # <<>>
    /\ ~IsSkippedFile(Head(files))
    /\ LET file_path == current \o <<Head(files)>>
       IN /\ FileAt(file_path).ok
          /\ ~ReadText(FileAt(file_path).bytes).ok
          /\ opened' = opened \cup {file_path}
    /\ files' = Tail(files)
    /\ UNCHANGED <<env, pc, stack, current, repo_structure, outfile, stdout,
                   exit_code, scanned, raised, yielded, outputs>>

\* Lines 29-36: the file is read and its text stored under its name.
FileStore ==
    /\ pc = "walk" /\ files # <<>>
    /\ ~IsSkippedFile(Head(files))
    /\ LET file_path == current \o <<Head(files)>>
           content == ReadText(FileAt(file_path).bytes)
       IN /\ FileAt(file_path).ok
          /\ content.ok
          /\ opened' = opened \cup {file_path}
          /\ repo_structure' = SetItemAt(repo_structure, current, Head(files), content.text)
    /\ files' = Tail(files)
    /\ UNCHANGED <<env, pc, stack, current, outfile, stdout, exit_code, scanned,
                   raised, yielded, outputs>>

\* os.walk is exhausted: the loop of line 13 ends.
WalkEnd ==
    /\ pc = "walk" /\ files = <<>> /\ stack = <<>>
    /\ pc' = "dump"
    /\ UNCHANGED <<env, stack, current, files, repo_structure, outfile, stdout,
                   exit_code, opened, scanned, raised, yielded, outputs>>

\* A slip: the output file opened with mode 'a'.
Dump_Appends ==
    /\ pc = "dump"
    /\ outfile' = (IF outfile = Absent THEN <<>> ELSE outfile) \o JsonDump(repo_structure)
    /\ pc' = "print"
    /\ UNCHANGED <<env, stack, current, files, repo_structure, stdout, exit_code,
                   opened, scanned, raised, yielded, outputs>>

\* Lines 38-39: the output file is opened for writing, which creates or
\* empties it, and the dict is written.  The output path lies outside the
\* tree walked and can be written.
Dump ==
    /\ pc = "dump"
    /\ outfile' = JsonDump(repo_structure)
    /\ pc' = "print"
    /\ UNCHANGED <<env, stack, current, files, repo_structure, stdout, exit_code,
                   opened, scanned, raised, yielded, outputs>>

\* Line 48, and the end of the script: exit status 0.
PrintCreated ==
    /\ pc = "print"
    /\ stdout' = Append(stdout, SuccessMessage)
    /\ exit_code' = 0
    /\ pc' = "exit"
    /\ UNCHANGED <<env, stack, current, files, repo_structure, outfile, opened,
                   scanned, raised, yielded, outputs>>

Next ==
    \/ Main
    \/ WalkScandirError
    \/ WalkYield
    \/ FileSkip
    \/ FileOpenError
    \/ FileDecodeError
    \/ FileStore
    \/ WalkEnd
    \/ Dump
    \/ PrintCreated

Spec == Init /\ [][Next]_vars

\* The program is run a second time on the same tree with the same
\* arguments: a new process, and the output file as the first run left it.
Rerun ==
    /\ pc = "exit"
    /\ outputs = <<>>
    /\ outputs' = <<[yielded |-> yielded, dict |-> repo_structure, text |-> outfile,
                     exit_code |-> exit_code]>>
    /\ pc' = "start"
    /\ stack' = <<>>
    /\ current' = <<>>
    /\ files' = <<>>
    /\ repo_structure' = <<>>
    /\ stdout' = <<>>
    /\ exit_code' = -1
    /\ opened' = {}
    /\ scanned' = {}
    /\ raised' = <<>>
    /\ yielded' = <<>>
    /\ UNCHANGED <<env, outfile>>

NextTwice ==
    \/ Next
    \/ Rerun

SpecTwice == Init /\ [][NextTwice]_vars

\* ------------------------------------------------------------------------
\* What the properties speak of
\* ------------------------------------------------------------------------

\* Every item of the dict d at every level, with its path from the top.
RECURSIVE Nodes(_, _)
Nodes(d, prefix) ==
    UNION { {[path |-> prefix \o <<d[i].k>>, isdir |-> d[i].isdir, s |-> d[i].s]}
            \cup (IF d[i].isdir THEN Nodes(d[i].m, prefix \o <<d[i].k>>) ELSE {})
          : i \in 1..Len(d) }

DictPaths == {n.path : n \in {x \in Nodes(repo_structure, <<>>) : x.isdir}}
LeafPaths == {n.path : n \in {x \in Nodes(repo_structure, <<>>) : ~x.isdir}}
TreePaths == DictPaths \cup LeafPaths

\* repo_to_json has returned: the output is written.
Returned == pc = "print" \/ (pc = "exit" /\ exit_code = 0)

\* The entry at the first k names of path is a directory of the tree.
IsDirAt(path, k) == \E e \in fs : e.isdir /\ e.path = SubSeq(path, 1, k)

\* The path lies in or below a directory with an excluded name (the entry
\* at the path may be that directory).
UnderExcludedDir(path) ==
    \E k \in 1..Len(path) : path[k] \in excluded_dirs /\ IsDirAt(path, k)

\* The path lies in or below a directory that cannot be listed.
UnderUnlistableDir(path) ==
    \E k \in 1..Len(path) : IsDirAt(path, k) /\ ~Listable(SubSeq(path, 1, k))

\* The two file rules, as the specification words them.
ExcludedByExtension(name) == \E ext \in excluded_extensions : EndsWith(name, ext)
ExcludedByName(name) == name \in excluded_files

FileEntries == {e \in fs : ~e.isdir}
DirEntries == {e \in fs : e.isdir}

AllFilesReadableText == \A e \in FileEntries : e.ok /\ Utf8Decode(e.bytes).ok
AllDirsListable == \A e \in DirEntries : e.ok

\* The filtered hierarchy: the directories not in or below an excluded
\* directory, and the files in them that neither file rule excludes.
FilteredDirs == {e.path : e \in {x \in DirEntries : ~UnderExcludedDir(x.path)}}
FilteredFiles ==
    {e.path : e \in {x \in FileEntries :
                        /\ ~UnderExcludedDir(x.path)
                        /\ ~ExcludedByExtension(Basename(x.path))
                        /\ ~ExcludedByName(Basename(x.path))}}

\* ------------------------------------------------------------------------
\* C1
\* ------------------------------------------------------------------------

\* C1 as stated: on a directory tree whose files are all readable UTF-8
\* text, once repo_to_json has returned, the dicts of the output are exactly
\* the directories of the filtered hierarchy (the empty ones too), its str
\* leaves exactly the files of the filtered hierarchy, and the output file
\* is that tree.  A directory that cannot be listed refutes it.
C1_AsStated ==
    (Returned /\ root_kind = "dir" /\ AllFilesReadableText)
        => /\ DictPaths = FilteredDirs
           /\ LeafPaths = FilteredFiles
           /\ outfile = JsonDump(repo_structure)

\* C1, amended: the same, on a directory tree whose files are all readable
\* UTF-8 text and whose directories can all be listed.
C1_FilteredHierarchy ==
    (Returned /\ root_kind = "dir" /\ AllFilesReadableText /\ AllDirsListable)
        => /\ DictPaths = FilteredDirs
           /\ LeafPaths = FilteredFiles
           /\ outfile = JsonDump(repo_structure)

\* C1's case: a directory whose only file is skipped is in the output as an
\* empty dict.
C1_Witness ==
    /\ Returned /\ root_kind = "dir" /\ AllFilesReadableText /\ AllDirsListable
    /\ \E e \in FileEntries : Len(e.path) = 2 /\ e.path \notin LeafPaths
    /\ repo_structure = <<DictItem(n_src, <<>>)>>
    /\ outfile = <<"{", "\n", " ", " ", "\"", "s", "r", "c", "\"", ":", " ",
                   "{", "}", "\n", "}">>

\* ------------------------------------------------------------------------
\* C2
\* ------------------------------------------------------------------------

\* C2: a directory with an excluded name is never listed, nothing in or
\* below it is opened or has a node in the output, and no file in or below
\* it is the one whose open() ends the run.
C2_ExcludedDirsNeverEntered ==
    \A e \in fs :
        UnderExcludedDir(e.path)
            => /\ e.path \notin scanned
               /\ e.path \notin opened
               /\ e.path \notin TreePaths
               /\ raised # <<e.path>>

\* C2's case: the run is over with exit status 0 although .git holds a file
\* that cannot be read, and another directory was listed.
C2_Witness ==
    /\ pc = "exit" /\ exit_code = 0
    /\ \E e \in FileEntries : e.path[1] = n_git /\ Len(e.path) = 2 /\ ~e.ok
    /\ <<>> \in scanned

\* ------------------------------------------------------------------------
\* C3
\* ------------------------------------------------------------------------

\* The entry is a file in a directory the walk lists and a file the walk
\* opens: neither rule excludes its name.
Survives(e) ==
    /\ ~e.isdir
    /\ ~UnderExcludedDir(Parent(e.path))
    /\ ~UnderUnlistableDir(Parent(e.path))
    /\ ~ExcludedByExtension(Basename(e.path))
    /\ ~ExcludedByName(Basename(e.path))

\* C3: a file whose name ends with an excluded extension or is, letter for
\* letter, an entry of excluded_files is never opened and has no leaf; a
\* file named app.log is not excluded: once the walk is through, it was
\* opened, and it has a leaf when it is readable text.
C3_ExcludedFilesSkipped ==
    /\ \A e \in FileEntries :
          (ExcludedByExtension(Basename(e.path)) \/ ExcludedByName(Basename(e.path)))
              => e.path \notin opened /\ e.path \notin LeafPaths
    /\ \A e \in FileEntries :
          (Returned /\ Basename(e.path) = n_app_log
                    /\ ~UnderExcludedDir(e.path) /\ ~UnderUnlistableDir(Parent(e.path)))
              => /\ e.path \in opened
                 /\ Utf8Decode(e.bytes).ok => e.path \in LeafPaths

\* C3's case: the walk is through a directory that holds app.js (or
\* .DS_Store, or *.log) and app.log; only app.log has a leaf.
C3_Witness ==
    /\ Returned
    /\ \E e \in FileEntries :
          /\ Len(e.path) = 1
          /\ (ExcludedByExtension(e.path[1]) \/ ExcludedByName(e.path[1]))
          /\ e.ok
    /\ LeafPaths = {<<n_app_log>>}

\* ------------------------------------------------------------------------
\* C4
\* ------------------------------------------------------------------------

\* The file is one the walk stores: it survives, can be read, and is UTF-8.
Stored(e) == Survives(e) /\ e.ok /\ Utf8Decode(e.bytes).ok

\* The loop of line 24 is about to take a file that is not excluded, can be
\* opened, and is not valid UTF-8.
TakesUndecodable ==
    /\ pc = "walk" /\ files # <<>>
    /\ ~ExcludedByExtension(Head(files)) /\ ~ExcludedByName(Head(files))
    /\ \E e \in FileEntries :
          e.path = current \o <<Head(files)>> /\ e.ok /\ ~Utf8Decode(e.bytes).ok

\* A file that can be opened and is not valid UTF-8 never has a leaf and is
\* never the file that ends the run; a run that ends with an error was
\* ended by a file that cannot be opened; once repo_to_json has returned,
\* the output file is the tree built, in which every other surviving file
\* has its leaf (the empty tree is written as {}).
C4_NoLeafNoError ==
    /\ \A e \in FileEntries :
          (e.ok /\ ~Utf8Decode(e.bytes).ok)
              => e.path \notin LeafPaths /\ raised # <<e.path>>
    /\ exit_code = 1 => \E e \in FileEntries : ~e.ok /\ raised = <<e.path>>
    /\ Returned
          => /\ outfile = JsonDump(repo_structure)
             /\ \A e \in FileEntries : Stored(e) => e.path \in LeafPaths
             /\ repo_structure = <<>> => outfile = <<"{", "}">>

\* C4: for every non-excluded file that is not valid UTF-8, no leaf is
\* created and no error is raised (C4_NoLeafNoError), and the step that
\* takes it goes on with the remaining files and directories: the process
\* keeps running, the loop is at the next file, os.walk has the same
\* directories before it, and the tree and the output file are untouched.
C4_DecodeFailureSkipped ==
    /\ []C4_NoLeafNoError
    /\ [][TakesUndecodable
            => /\ pc' = "walk" /\ exit_code' = -1 /\ raised' = <<>>
               /\ files' = Tail(files)
               /\ stack' = stack
               /\ repo_structure' = repo_structure
               /\ outfile' = outfile]_vars

\* C4's case: the run is over with exit status 0, a file that is not UTF-8
\* was opened and has no leaf, and the file beside it has its leaf.
C4_Witness ==
    /\ pc = "exit" /\ exit_code = 0
    /\ \E e \in FileEntries :
          /\ Len(e.path) = 1 /\ ~Utf8Decode(e.bytes).ok
          /\ e.path \in opened /\ e.path \notin LeafPaths
    /\ \E e \in FileEntries : Len(e.path) = 1 /\ e.path \in LeafPaths

\* ------------------------------------------------------------------------
\* C5
\* ------------------------------------------------------------------------

\* C5 as stated: when repo_path is missing or is no directory, the output
\* file is never created or changed, the exit status is never 0 and the
\* success message is never printed.  The program refutes it: os.walk
\* yields nothing, {} is written and the run ends with exit status 0.
C5_AsStated ==
    root_kind \in {"file", "missing"}
        => /\ outfile = outfile0
           /\ exit_code # 0
           /\ stdout = <<>>

\* ------------------------------------------------------------------------
\* C6
\* ------------------------------------------------------------------------

\* C6 as stated: every leaf holds the UTF-8 decoding of the bytes of its
\* file, unchanged.  The program refutes it: the text-mode read turns
\* CR LF and CR into LF.
C6_AsStated ==
    \A n \in Nodes(repo_structure, <<>>) :
        ~n.isdir => n.s = Utf8Decode(FileAt(n.path).bytes).text

\* ------------------------------------------------------------------------
\* C8
\* ------------------------------------------------------------------------

\* C8 as stated: a directory that cannot be listed or a file that cannot be
\* opened is passed over: the run never ends with an error, and when it is
\* over the output file holds the tree with a leaf for every other
\* surviving file.  The program refutes it for files: the error of open()
\* is not caught.
C8_AsStated ==
    /\ exit_code # 1
    /\ pc = "exit"
          => /\ outfile = JsonDump(repo_structure)
             /\ \A e \in FileEntries : Stored(e) => e.path \in LeafPaths
             /\ \A e \in fs : (~e.ok \/ UnderUnlistableDir(e.path))
                                 => e.path \notin TreePaths

\* ------------------------------------------------------------------------
\* C9
\* ------------------------------------------------------------------------

\* C9 as stated: no path of the output has an ancestor named in
\* excluded_dirs, and no name on it, of a directory or of the file, ends
\* with an excluded extension or is an entry of excluded_files.  The
\* program refutes it: the file rules are applied to files only.
C9_AsStated ==
    \A p \in TreePaths :
        /\ \A k \in 1..(Len(p) - 1) : p[k] \notin excluded_dirs
        /\ \A k \in 1..Len(p) : ~ExcludedByExtension(p[k]) /\ ~ExcludedByName(p[k])

\* C9, amended: no dict of the output, at any level, is named in
\* excluded_dirs, and no leaf has a name that ends with an excluded
\* extension or is an entry of excluded_files; the names of directories
\* are not held against the two file rules.
C9_ExclusionInvariant ==
    \A n \in Nodes(repo_structure, <<>>) :
        /\ \A k \in 1..(Len(n.path) - 1) : n.path[k] \notin excluded_dirs
        /\ n.isdir => Basename(n.path) \notin excluded_dirs
        /\ ~n.isdir => /\ ~ExcludedByExtension(Basename(n.path))
                       /\ ~ExcludedByName(Basename(n.path))

\* C9's case: a leaf below a directory named lib.js.
C9_Witness ==
    /\ Returned
    /\ \E p \in LeafPaths : Len(p) = 2 /\ p[1] = n_lib_js
    /\ outfile = JsonDump(repo_structure)

\* ------------------------------------------------------------------------
\* C10
\* ------------------------------------------------------------------------

\* C10: until the walk is through the output file is as it was before the
\* run, and when the run ends with an error the output file is as it was
\* before the run and nothing was printed.
C10_NoWriteBeforeWalkEnds ==
    /\ pc \in {"start", "walk", "dump"} => outfile = outfile0
    /\ (pc = "exit" /\ exit_code = 1) => outfile = outfile0 /\ stdout = <<>>
    /\ outfile # outfile0 => pc \in {"print", "exit"} /\ stack = <<>> /\ files = <<>>

\* C10's case: the run ended with the error of an open() after a leaf was
\* stored, and the output file still holds its old text.
C10_Witness ==
    /\ pc = "exit" /\ exit_code = 1 /\ raised # <<>>
    /\ LeafPaths # {}
    /\ outfile0 = OldText /\ outfile = OldText

\* ------------------------------------------------------------------------
\* C7 (SpecTwice)
\* ------------------------------------------------------------------------

\* C7 as stated: the second run on the unchanged tree leaves the output
\* file byte for byte as the first run left it, in whatever order the file
\* system enumerates the entries in each run.  The program refutes it: the
\* keys are written in the order of the enumeration.
C7_AsStated ==
    (outputs # <<>> /\ Returned) => outfile = outputs[1].text

\* C7, amended: the second run builds a dict with the same keys and the
\* same values at every level as the first, and writes the same bytes
\* whenever the file system enumerates the entries of every directory in
\* the same order in both runs.
C7_Idempotence ==
    (outputs # <<>> /\ Returned)
        => /\ outputs[1].exit_code = 0
           /\ Nodes(repo_structure, <<>>) = Nodes(outputs[1].dict, <<>>)
           /\ outfile = JsonDump(repo_structure)
           /\ outputs[1].text = JsonDump(outputs[1].dict)
           /\ yielded = outputs[1].yielded => outfile = outputs[1].text

\* C7's case: two runs that both wrote a tree of two keys, enumerated in
\* the same order, and the same bytes.
C7_Witness ==
    /\ outputs # <<>> /\ Returned
    /\ Len(repo_structure) = 2
    /\ yielded = outputs[1].yielded
    /\ outfile = outputs[1].text

====
